---- MODULE Spec2Model ----
(***************************************************************************)
(* A model of roboviz/__init__.py: the Visualizer and MapVisualizer        *)
(* classes, one instance per behaviour, driven by a caller that issues     *)
(* display calls one after the other, and by the window system, which can  *)
(* close the figure's window and can interrupt the event pump (plt.pause). *)
(*                                                                         *)
(* A display call is cut into steps at its suspension points, the calls of *)
(* plt.pause: everything the code does between two suspension points is    *)
(* one action.                                                             *)
(*                                                                         *)
(* Numbers.  The code computes with Python floats.  The model computes     *)
(* with exact rationals <<numerator, denominator>> in lowest terms, and    *)
(* world coordinates are integers; headings are multiples of 90 degrees,   *)
(* whose cosine and sine are taken as exactly -1, 0 or 1.                  *)
(*                                                                         *)
(* Optional values.  Python's None is the empty tuple and a value v that   *)
(* is present is the one-element tuple <<v>>.                              *)
(***************************************************************************)
EXTENDS Integers, Sequences, FiniteSets, TLC

\* ------------------------------------------------------------- bounds
\* The number of display calls a behaviour makes.
MaxCalls == 3
\* The largest world coordinate of the second pose handed to display.
MaxCoord == 3
\* The side, in pixels, of the map a MapVisualizer is given buffers for.
MaxMapPixels == 2

\* ------------------------------------------------------------- helpers
None == <<>>
Some(v) == <<v>>

Abs(n) == IF n < 0 THEN -n ELSE n

RECURSIVE GCD(_, _)
GCD(a, b) == IF b = 0 THEN a ELSE GCD(b, a % b)

\* The rational n/d (d # 0) in lowest terms with a positive denominator.
Rat(n, d) ==
    LET g == GCD(Abs(n), Abs(d))
        sg == IF d < 0 THEN -1 ELSE 1
    IN  <<(sg * n) \div g, (sg * d) \div g>>

RatInt(n) == <<n, 1>>
RatDiv(a, b) == Rat(a[1] * b[2], a[2] * b[1])
RatMul(a, b) == Rat(a[1] * b[1], a[2] * b[2])
RatAdd(a, b) == Rat(a[1] * b[2] + b[1] * a[2], a[2] * b[2])

\* np.cos(np.radians(t)) and np.sin(np.radians(t)) for t a multiple of 90.
CosDeg(t) == CASE t % 360 = 0 -> 1 [] t % 360 = 180 -> -1 [] OTHER -> 0
SinDeg(t) == CASE t % 360 = 90 -> 1 [] t % 360 = 270 -> -1 [] OTHER -> 0

\* Visualizer.ROBOT_HEIGHT_M = 0.5 and Visualizer.ROBOT_WIDTH_M = 0.3
ROBOT_HEIGHT_M == Rat(5, 10)
ROBOT_WIDTH_M == Rat(3, 10)

\* ------------------------------------------------------------- inputs
Variants == {"Visualizer", "MapVisualizer"}

\* (map_size_pixels, map_size_meters) of the constructor.
Sizes == {<<800, 10>>, <<MaxMapPixels, 5>>}

\* (x_m, y_m, theta_deg) of a display call.
Poses == {<<5, 5, 0>>, <<-MaxCoord, 2, 90>>}

\* The flat byte buffers of length n*n handed to MapVisualizer.display: all
\* zeros, and a ramp that tells the rows of the reshaped image apart.
MapBuffers(n) ==
    { [i \in 1..(n * n) |-> 0], [i \in 1..(n * n) |-> (i * 85) % 256] }

\* The one id of the figure made by the constructor, and the id of the figure
\* plt.gcf() makes or finds once that figure's window is closed.
FigId == 1
OtherFigId == 2

\* ------------------------------------------------------------- state
VARIABLES
    variant,                     \* the class of the instance
    map_size_pixels,             \* self.map_size_pixels
    map_scale_meters_per_pixel,  \* self.map_scale_meters_per_pixel
    figid,                       \* self.figid, id(self.fig)
    img_artist,                  \* self.img_artist: None or <<[id, data]>>
    vehicle,                     \* self.vehicle: None or <<the arrow>>
    prevpos,                     \* self.prevpos: None or <<(x, y)>>
    showtraj,                    \* self.showtraj
    zero_angle,                  \* self.zero_angle: None or <<angle>>
    start_angle,                 \* self.start_angle: None or <<angle>>
    start_pos,                   \* self.start_pos: None or <<(x, y)>>
    shift,                       \* self.shift
    ax,                          \* self.ax: None or <<the axes' settings>>
    patches,                     \* the arrows on the figure's axes (ids)
    lines,                       \* the Line2D objects on the figure's axes
    images,                      \* the images on the figure's axes (ids)
    gcf,                         \* id(plt.gcf()): the active figure
    nextid,                      \* the next fresh artist id
    pc,                          \* where the running display call stands
    calls,                       \* history: the arguments of every call made
    results,                     \* history: how every finished call ended
    call,                        \* history: the running (or last) call:
                                 \*   closedAtStart: figid # gcf when it began
                                 \*   pre: Snapshot when it began
                                 \*   checked: gcf as _refresh compared it
                                 \*   draws, pumps: plt.draw() and plt.pause()
                                 \*     calls made by _refresh
                                 \*   interrupted: a plt.pause() of it raised
    nconfig,                     \* history: times the axes were configured
    nimshow,                     \* history: times ax.imshow made an artist
    prevvehicle                  \* history: id of the arrow before this call

fields == <<variant, map_size_pixels, map_scale_meters_per_pixel, figid,
            showtraj, zero_angle, shift>>
objects == <<img_artist, vehicle, prevpos, start_angle, start_pos, ax,
             patches, lines, images, nextid>>
history == <<calls, results, call, nconfig, nimshow, prevvehicle>>
vars == <<fields, objects, history, gcf, pc>>

\* What the claims call the mutable state of the instance.
Snapshot ==
    [vehicle |-> vehicle, prevpos |-> prevpos, lines |-> lines,
     start_angle |-> start_angle, start_pos |-> start_pos,
     img_artist |-> img_artist]

\* ------------------------------------------------------------- construction
\* Visualizer.__init__: shift = -map_size_pixels / 2
DefaultShift(pixels) == Rat(-pixels, 2)

\* MapVisualizer.__init__: shift = 0
MapShift == RatInt(0)

\* The state after Visualizer.__init__ or MapVisualizer.__init__ has run.
\* A MapVisualizer is only built with the map side that buffers exist for.
Init ==
    \E v \in Variants, sz \in Sizes, st \in BOOLEAN, za \in {None, Some(0)} :
        /\ v = "MapVisualizer" => sz[1] <= MaxMapPixels
        /\ variant = v
        /\ map_size_pixels = sz[1]
        /\ map_scale_meters_per_pixel = Rat(sz[2], sz[1])
        /\ figid = FigId
        /\ gcf = FigId
        /\ img_artist = None
        /\ vehicle = None
        /\ prevpos = None
        /\ showtraj = st
        /\ zero_angle = za
        /\ start_angle = None
        /\ start_pos = None
        /\ shift = IF v = "MapVisualizer" THEN MapShift ELSE DefaultShift(sz[1])
        /\ ax = None
        /\ patches = {}
        /\ lines = <<>>
        /\ images = {}
        /\ nextid = 1
        /\ pc = "idle"
        /\ calls = <<>>
        /\ results = <<>>
        /\ call = [closedAtStart |-> FALSE,
                   pre |-> [vehicle |-> None, prevpos |-> None, lines |-> <<>>,
                            start_angle |-> None, start_pos |-> None,
                            img_artist |-> None],
                   checked |-> None, draws |-> 0, pumps |-> 0,
                   interrupted |-> FALSE]
        /\ nconfig = 0
        /\ nimshow = 0
        /\ prevvehicle = None

\* ------------------------------------------------------------- _setPose
\* Lines 88-91: the reference pose is taken from the first pose received when
\* zero_angle is configured.  The result is (start_angle, start_pos).
CaptureStart_everyPose(x_m, y_m, theta_deg) ==
    IF zero_angle # None
    THEN <<Some(theta_deg), Some(<<x_m, y_m>>)>>
    ELSE <<start_angle, start_pos>>

CaptureStart(x_m, y_m, theta_deg) ==
    IF zero_angle # None /\ start_angle = None
    THEN <<Some(theta_deg), Some(<<x_m, y_m>>)>>
    ELSE <<start_angle, start_pos>>

\* Line 107: np.arange(shift, map_size_pixels + shift + 100, 100)
Ticks ==
    [k \in 1..((map_size_pixels + 199) \div 100) |->
        RatAdd(shift, RatInt(100 * (k - 1)))]

\* Lines 95-110: the axes' settings made when there is no vehicle yet.  The
\* tick labels are held as the numbers whose text str() gives.
AxesSettings ==
    [aspect |-> "auto", autoscale_on |-> TRUE,
     xlabel |-> "X (m)", ylabel |-> "Y (m)", grid |-> FALSE,
     xlim |-> <<shift, RatAdd(RatInt(map_size_pixels), shift)>>,
     ylim |-> <<shift, RatAdd(RatInt(map_size_pixels), shift)>>,
     ticklabels |-> [k \in DOMAIN Ticks |->
                        RatMul(map_scale_meters_per_pixel, Ticks[k])]]

\* Line 113: self.vehicle.remove() takes the arrow off the axes.
RemoveVehicle_kept(onaxes) == onaxes

RemoveVehicle(onaxes) == onaxes \ {vehicle[1].id}

\* Lines 116-127: the arrow drawn for a pose, a new artist with identity id.
Arrow(id, x_m, y_m, theta_deg) ==
    LET c == CosDeg(theta_deg)
        s == SinDeg(theta_deg)
        l == Rat(1, 10)
        scale == map_scale_meters_per_pixel
    IN  [id |-> id,
         x |-> RatDiv(RatInt(x_m), scale),
         y |-> RatDiv(RatInt(y_m), scale),
         dx |-> RatMul(l, RatInt(c)),
         dy |-> RatMul(l, RatInt(s)),
         head_width |-> RatDiv(ROBOT_WIDTH_M, scale),
         head_length |-> RatDiv(ROBOT_HEIGHT_M, scale)]

\* Lines 154-158: Visualizer._m2pix
m2pix_times(x_m, y_m) ==
    LET s == map_scale_meters_per_pixel
    IN  <<RatMul(RatInt(x_m), s), RatMul(RatInt(y_m), s)>>

m2pix(x_m, y_m) ==
    LET s == map_scale_meters_per_pixel
    IN  <<RatDiv(RatInt(x_m), s), RatDiv(RatInt(y_m), s)>>

\* Lines 132-133: the trajectory segment from the previous position.
TrajLines_anyway(currpos) ==
    IF prevpos # None
    THEN Append(lines, [xdata |-> <<prevpos[1][1], currpos[1]>>,
                        ydata |-> <<prevpos[1][2], currpos[2]>>])
    ELSE lines

TrajLines(currpos) ==
    IF showtraj /\ prevpos # None
    THEN Append(lines, [xdata |-> <<prevpos[1][1], currpos[1]>>,
                        ydata |-> <<prevpos[1][2], currpos[2]>>])
    ELSE lines

\* Lines 80-134: Visualizer._setPose
setPose(x_m, y_m, theta_deg) ==
    /\ start_angle' = CaptureStart(x_m, y_m, theta_deg)[1]
    /\ start_pos' = CaptureStart(x_m, y_m, theta_deg)[2]
    /\ IF vehicle = None
       THEN /\ ax' = Some(AxesSettings)
            /\ nconfig' = nconfig + 1
            /\ patches' = patches \cup {nextid}
            /\ prevvehicle' = None
       ELSE /\ ax' = ax
            /\ nconfig' = nconfig
            /\ patches' = RemoveVehicle(patches) \cup {nextid}
            /\ prevvehicle' = Some(vehicle[1].id)
    /\ vehicle' = Some(Arrow(nextid, x_m, y_m, theta_deg))
    /\ nextid' = nextid + 1
    /\ lines' = TrajLines(m2pix(x_m, y_m))
    /\ prevpos' = Some(m2pix(x_m, y_m))

\* ------------------------------------------------------------- _refresh
\* Line 139: self.figid != id(plt.gcf())
FigMismatch_ownFigure == figid # FigId

FigMismatch == figid # gcf

\* Lines 136-147, up to the event pump: on a mismatch the call ends with
\* False; otherwise plt.draw() runs and the call waits in plt.pause(.01).
\* c is the record of the running call.
refreshBegin(c) ==
    IF FigMismatch
    THEN /\ pc' = "idle"
         /\ results' = Append(results, "False")
         /\ call' = [c EXCEPT !.checked = Some(gcf)]
    ELSE /\ pc' = "refresh_pause"
         /\ results' = results
         /\ call' = [c EXCEPT !.checked = Some(gcf), !.draws = @ + 1,
                              !.pumps = @ + 1]

\* Line 148: plt.pause(.01) comes back and _refresh returns True.
RefreshPauseReturns ==
    /\ pc = "refresh_pause"
    /\ pc' = "idle"
    /\ results' = Append(results, "True")
    /\ UNCHANGED <<fields, objects, gcf, calls, call, nconfig, nimshow,
                   prevvehicle>>

\* Lines 149-150: plt.pause(.01) raises; the bare except returns False.
RefreshPauseRaises ==
    /\ pc = "refresh_pause"
    /\ pc' = "idle"
    /\ results' = Append(results, "False")
    /\ call' = [call EXCEPT !.interrupted = TRUE]
    /\ UNCHANGED <<fields, objects, gcf, calls, nconfig, nimshow, prevvehicle>>

\* ------------------------------------------------------------- display
NewCall == [closedAtStart |-> (figid # gcf), pre |-> Snapshot,
            checked |-> None, draws |-> 0, pumps |-> 0, interrupted |-> FALSE]

\* Lines 74-78: Visualizer.display, up to its suspension point.
Display(x_m, y_m, theta_deg) ==
    /\ pc = "idle"
    /\ variant = "Visualizer"
    /\ Len(calls) < MaxCalls
    /\ calls' = Append(calls, [x |-> x_m, y |-> y_m, theta |-> theta_deg,
                               mapbytes |-> None])
    /\ setPose(x_m, y_m, theta_deg)
    /\ refreshBegin(NewCall)
    /\ UNCHANGED <<fields, img_artist, images, gcf, nimshow>>

\* Line 173: np.reshape(np.frombuffer(mapbytes, dtype=np.uint8), (n, n)):
\* row r of the image is bytes (r-1)*n+1 .. r*n of the buffer.
Reshape(mapbytes, n) ==
    [r \in 1..n |-> [col \in 1..n |-> mapbytes[(r - 1) * n + col]]]

\* Lines 169-176: MapVisualizer.display up to its first suspension point,
\* plt.pause(.001).
MapDisplay(x_m, y_m, theta_deg, mapbytes) ==
    /\ pc = "idle"
    /\ variant = "MapVisualizer"
    /\ Len(calls) < MaxCalls
    /\ calls' = Append(calls, [x |-> x_m, y |-> y_m, theta |-> theta_deg,
                               mapbytes |-> Some(mapbytes)])
    /\ setPose(x_m, y_m, theta_deg)
    /\ pc' = "map_pause"
    /\ call' = NewCall
    /\ UNCHANGED <<fields, img_artist, images, gcf, nimshow, results>>

\* Lines 178-186: plt.pause(.001) comes back; the image artist is made or
\* updated in place, and _refresh runs up to its own suspension point.
MapPauseReturns ==
    /\ pc = "map_pause"
    /\ LET mapimg == Reshape(calls[Len(calls)].mapbytes[1], map_size_pixels)
       IN  IF img_artist = None
           THEN /\ img_artist' = Some([id |-> nextid, data |-> mapimg])
                /\ images' = images \cup {nextid}
                /\ nextid' = nextid + 1
                /\ nimshow' = nimshow + 1
           ELSE /\ img_artist' = Some([img_artist[1] EXCEPT !.data = mapimg])
                /\ UNCHANGED <<images, nextid, nimshow>>
    /\ refreshBegin(call)
    /\ UNCHANGED <<fields, vehicle, prevpos, start_angle, start_pos, ax,
                   patches, lines, gcf, calls, nconfig, prevvehicle>>

\* Line 176: plt.pause(.001) raises.  Nothing in MapVisualizer.display
\* catches it: the call ends by raising to its caller.
MapPauseRaises ==
    /\ pc = "map_pause"
    /\ pc' = "idle"
    /\ results' = Append(results, "raised")
    /\ call' = [call EXCEPT !.interrupted = TRUE]
    /\ UNCHANGED <<fields, objects, gcf, calls, nconfig, nimshow, prevvehicle>>

\* ------------------------------------------------------------- environment
\* The window of the constructor's figure is closed: from then on plt.gcf()
\* is another figure.
CloseWindow ==
    /\ gcf = figid
    /\ gcf' = OtherFigId
    /\ UNCHANGED <<fields, objects, history, pc>>

\* The buffers the caller of this instance has: only a MapVisualizer is handed
\* any, and they have the length of its map.
CallerBuffers ==
    IF variant = "MapVisualizer" THEN MapBuffers(map_size_pixels) ELSE {}

Next ==
    \/ \E p \in Poses : Display(p[1], p[2], p[3])
    \/ \E p \in Poses, m \in CallerBuffers : MapDisplay(p[1], p[2], p[3], m)
    \/ MapPauseReturns
    \/ MapPauseRaises
    \/ RefreshPauseReturns
    \/ RefreshPauseRaises
    \/ CloseWindow

Spec == Init /\ [][Next]_vars

\* ------------------------------------------------------------- properties
LastCall == calls[Len(calls)]
LastResult == results[Len(results)]
Finished == pc = "idle" /\ Len(calls) >= 1

\* The display coordinates of a call's position: (x/scale, y/scale).
Converted(c) ==
    LET s == map_scale_meters_per_pixel
    IN  <<Rat(c.x * s[2], s[1]), Rat(c.y * s[2], s[1])>>

\* The arrow shows the pose of call c and nothing else.
ShowsPose(c) ==
    /\ vehicle # None
    /\ <<vehicle[1].x, vehicle[1].y>> = Converted(c)
    /\ vehicle[1].dx = Rat(CosDeg(c.theta), 10)
    /\ vehicle[1].dy = Rat(SinDeg(c.theta), 10)

\* The image artist holds the map of call c.
ShowsMap(c) ==
    /\ img_artist # None
    /\ \A r \in 1..map_size_pixels, col \in 1..map_size_pixels :
          img_artist[1].data[r][col] =
              c.mapbytes[1][(r - 1) * map_size_pixels + col]

\* C1: a display call that begins when the constructor's figure is no longer
\* the active one returns False and leaves vehicle, prevpos, the trajectory
\* segments, start_angle, start_pos and the image artist as they were.
C1_ClosedDisplayMutatesNothing ==
    (Finished /\ call.closedAtStart) =>
        (LastResult = "False" /\ Snapshot = call.pre)

\* C2: once a display call has returned False, every later display call
\* returns False and changes nothing.
C2_ClosedIsTerminal ==
    (Finished /\ \E i \in 1..(Len(results) - 1) : results[i] = "False") =>
        (LastResult = "False" /\ Snapshot = call.pre)

\* C3: no display call ends by raising the event pump's interruption to its
\* caller.
C3_InterruptNeverPropagates ==
    \A i \in DOMAIN results : results[i] # "raised"

\* C4, as claimed: a display call that has run _refresh has returned False
\* without a draw or a pause of _refresh if the active figure was not the
\* constructor's, and has otherwise drawn and returned True.
C4_FalseOnlyOnMismatch ==
    (Finished /\ call.checked # None) =>
        IF call.checked[1] # figid
        THEN LastResult = "False" /\ call.draws = 0 /\ call.pumps = 0
        ELSE LastResult = "True" /\ call.draws = 1

\* C4, amended: when _refresh finds the active figure not to be the
\* constructor's, the call returns False and _refresh has neither drawn nor
\* paused; when it finds it to be the constructor's, it draws once, pauses
\* once, and the call returns True if the pause comes back and False if the
\* pause raises.  A call that never reaches _refresh is a MapVisualizer call
\* whose own pause raised.
C4_RefreshOutcome ==
    /\ pc = "refresh_pause" =>
          call.checked = Some(figid) /\ call.draws = 1 /\ call.pumps = 1
    /\ Finished =>
          IF call.checked = None
          THEN variant = "MapVisualizer" /\ LastResult = "raised"
          ELSE IF call.checked[1] # figid
          THEN LastResult = "False" /\ call.draws = 0 /\ call.pumps = 0
          ELSE /\ call.draws = 1
               /\ call.pumps = 1
               /\ LastResult = IF call.interrupted THEN "False" ELSE "True"

C4_Witness ==
    /\ Finished
    /\ Len(results) >= 2
    /\ results[1] = "True"
    /\ call.checked = Some(OtherFigId)
    /\ LastResult = "False"

\* C5: with show_trajectory, after N >= 1 display calls there are exactly N-1
\* segments, the k-th from the converted position of call k to that of call
\* k+1, and prevpos is the converted position of the last call; without
\* show_trajectory there is never a segment.
C5_Trajectory ==
    /\ ~showtraj => lines = <<>>
    /\ Len(calls) >= 1 =>
          /\ prevpos = Some(Converted(LastCall))
          /\ showtraj =>
                /\ Len(lines) = Len(calls) - 1
                /\ \A k \in 1..(Len(calls) - 1) :
                      /\ lines[k].xdata =
                            <<Converted(calls[k])[1], Converted(calls[k + 1])[1]>>
                      /\ lines[k].ydata =
                            <<Converted(calls[k])[2], Converted(calls[k + 1])[2]>>

C5_Witness ==
    /\ showtraj
    /\ Len(calls) = 3
    /\ Len(lines) = 2
    /\ lines[1] # lines[2]

\* C6: after every MapVisualizer.display call the image artist exists, was
\* made once, on the first call, and holds that call's buffer reshaped
\* row-major.
C6_ArtistMadeOnFirstCall ==
    (Finished /\ variant = "MapVisualizer") =>
        (nimshow = 1 /\ ShowsMap(LastCall))

\* C7: after one or more display calls exactly one arrow is on the axes, a
\* new instance drawn by the last call at that call's pose, the arrow before
\* it gone; the axes were configured once; vehicle is not None again.
C7_OneGlyph ==
    /\ Len(calls) = 0 => vehicle = None /\ patches = {} /\ nconfig = 0
    /\ Len(calls) >= 1 =>
          /\ ShowsPose(LastCall)
          /\ patches = {vehicle[1].id}
          /\ nconfig = 1
          /\ ax # None
          /\ (Len(calls) >= 2) = (prevvehicle # None)
          /\ prevvehicle # None =>
                prevvehicle[1] # vehicle[1].id /\ prevvehicle[1] \notin patches

C7_Witness ==
    /\ Len(calls) >= 2
    /\ calls[Len(calls) - 1].x = LastCall.x
    /\ calls[Len(calls) - 1].y = LastCall.y
    /\ calls[Len(calls) - 1].theta = LastCall.theta
    /\ prevvehicle # None
    /\ Cardinality(patches) = 1

\* C8: the arrow is anchored at (x/scale, y/scale) whatever the shift, and
\* prevpos is the same pair; with 800 pixels for 10 meters, display(5, 5, 0)
\* anchors it at (400, 400) with the shaft along +X.
C8_Anchor ==
    Len(calls) >= 1 =>
        /\ <<vehicle[1].x, vehicle[1].y>> = Converted(LastCall)
        /\ prevpos = Some(<<vehicle[1].x, vehicle[1].y>>)
        /\ ( /\ map_size_pixels = 800
             /\ map_scale_meters_per_pixel = Rat(10, 800)
             /\ <<LastCall.x, LastCall.y, LastCall.theta>> = <<5, 5, 0>> ) =>
                /\ vehicle[1].x = RatInt(400)
                /\ vehicle[1].y = RatInt(400)
                /\ prevpos = Some(<<RatInt(400), RatInt(400)>>)
                /\ vehicle[1].dy = RatInt(0)
                /\ vehicle[1].dx = Rat(1, 10)

C8_Witness ==
    /\ map_size_pixels = 800
    /\ Len(calls) >= 1
    /\ <<LastCall.x, LastCall.y, LastCall.theta>> = <<5, 5, 0>>
    /\ vehicle[1].x = RatInt(400)
    /\ prevpos = Some(<<RatInt(400), RatInt(400)>>)

\* C9: wherever a display call waits in the event pump, the arrow shows this
\* call's pose and, for a MapVisualizer, the image artist exists and holds
\* this call's map.
C9_UpdatedBeforeEveryPause ==
    pc \in {"map_pause", "refresh_pause"} =>
        /\ ShowsPose(LastCall)
        /\ variant = "MapVisualizer" => ShowsMap(LastCall)

\* C10: with zero_angle the reference is the first pose received and never
\* changes; without it start_angle and start_pos stay None; the arrow shows
\* the last call's own pose, the reference not subtracted.
C10_Reference ==
    /\ (zero_angle = None \/ Len(calls) = 0) =>
          start_angle = None /\ start_pos = None
    /\ (zero_angle # None /\ Len(calls) >= 1) =>
          /\ start_angle = Some(calls[1].theta)
          /\ start_pos = Some(<<calls[1].x, calls[1].y>>)
    /\ Len(calls) >= 1 => ShowsPose(LastCall)

C10_Witness ==
    /\ zero_angle # None
    /\ Len(calls) >= 2
    /\ <<LastCall.x, LastCall.y, LastCall.theta>> #
           <<calls[1].x, calls[1].y, calls[1].theta>>
    /\ start_angle = Some(calls[1].theta)
    /\ start_pos = Some(<<calls[1].x, calls[1].y>>)

====
